---- MODULE Spec2Model ----
(***************************************************************************)
(* Model of JiraReport.generate_dataframes_by_jql and                      *)
(* JiraReport.generate_groupby_count_dataframe                             *)
(* (src/jira-report/jira_report.py): the nested extract_value function,    *)
(* the tabulation of the fetched issues into a DataFrame and the           *)
(* per-column groupby/size aggregation.                                    *)
(*                                                                         *)
(* Python values are tagged records, so that values of different Python    *)
(* types are never equal and can live in one set:                          *)
(*   None            [tag |-> "None"]                                      *)
(*   str             [tag |-> "str",   s |-> "Open"]                       *)
(*   int             [tag |-> "int",   n |-> 1]                            *)
(*   float           [tag |-> "float", f |-> "1.5"]                        *)
(*   bool            [tag |-> "bool",  b |-> TRUE]                         *)
(*   list            [tag |-> "list",  elems |-> <<...>>]                  *)
(*   dict            [tag |-> "dict",  value |-> v, name |-> v, other |-> v]*)
(*                   over the keys 'value', 'name', 'other'; a key the     *)
(*                   dict does not hold is Absent                          *)
(*   float('nan')    [tag |-> "NaN"]  (the cell pandas puts where a row    *)
(*                   has no entry for a column)                            *)
(***************************************************************************)
EXTENDS Integers, Sequences, FiniteSets, TLC

VARIABLES
    pc,              \* position in the operation being run
    calls,           \* the calls made on self.jira_api, in order
    all_jira_fields, \* line 136: field id -> field description
    issues,          \* the ['issues'] list search_issues returned
    rows,            \* the list named df at lines 137-142
    df,              \* the DataFrame of line 143
    groupby_dfs,     \* line 145: column name -> groupby DataFrame
    idx,             \* position of the running for loop (lines 138, 146)
    error,           \* the exception that left the method, or NoError
    ret,             \* the tuple returned at line 149, or NoReturn
    arg,             \* argument of a direct call of one function
    res              \* its result

vars == <<pc, calls, all_jira_fields, issues, rows, df, groupby_dfs, idx,
          error, ret, arg, res>>

----------------------------------------------------------------------------
(* Bounds *)

\* longest list handed to extract_value
MaxLen == 2
\* most issues in one search result
MaxIssues == 2
\* most rows of a DataFrame handed directly to the groupby
MaxRows == 3

----------------------------------------------------------------------------
(* Python values *)

None == [tag |-> "None"]
Absent == [tag |-> "absent"]
NaN == [tag |-> "NaN"]
PyStr(s) == [tag |-> "str", s |-> s]
PyInt(n) == [tag |-> "int", n |-> n]
PyFloat(f) == [tag |-> "float", f |-> f]
PyBool(b) == [tag |-> "bool", b |-> b]
PyList(elems) == [tag |-> "list", elems |-> elems]
PyDict(value, name, other) ==
    [tag |-> "dict", value |-> value, name |-> name, other |-> other]

\* Sequences over S of length 0..n.
SeqUpTo(S, n) == UNION {[1..k -> S] : k \in 0..n}

Min(S) == CHOOSE m \in S : \A k \in S : m <= k

\* Python truth value of an object (bool(x)), as `elif ... and field.get(k)`
\* tests it.
Truthy(v) ==
    CASE v.tag = "None"  -> FALSE
      [] v.tag = "str"   -> v.s # ""
      [] v.tag = "int"   -> v.n # 0
      [] v.tag = "float" -> v.f # "0.0"
      [] v.tag = "bool"  -> v.b
      [] v.tag = "list"  -> v.elems # <<>>
      [] v.tag = "dict"  -> \/ v.value # Absent
                            \/ v.name # Absent
                            \/ v.other # Absent
      [] OTHER           -> TRUE

\* dict.get(key): the entry, or None when the dict has no such key.
DictGet(d, key) == IF d[key] = Absent THEN None ELSE d[key]

----------------------------------------------------------------------------
(* Outcome of a call: a returned value or a raised exception *)

Returned(v) == [ok |-> TRUE, val |-> v]
Raised(exc, v) == [ok |-> FALSE, exc |-> exc, val |-> v]

\* str.join on strings: the items separated by sep.
RECURSIVE JoinStr(_, _)
JoinStr(sep, items) ==
    IF items = <<>> THEN ""
    ELSE IF Len(items) = 1 THEN items[1]
    ELSE items[1] \o sep \o JoinStr(sep, Tail(items))

\* sep.join(items) of line 132: a TypeError naming the first item that is
\* not a str, the joined str otherwise.
str_join(sep, items) ==
    LET notStr == {k \in 1..Len(items) : items[k].tag # "str"}
    IN  IF notStr # {}
        THEN Raised("TypeError", items[Min(notStr)])
        ELSE Returned(PyStr(JoinStr(sep, [k \in 1..Len(items) |-> items[k].s])))

\* Variant: the None branch returns the 'N/A' it builds.
NoneBranch_ReturnsNA(field) == Returned(PyStr("N/A"))

\* line 123-124: `if field is None: 'N/A'` evaluates the string and drops
\* it; the function falls off its end and returns None.
NoneBranch(field) == Returned(None)

\* line 125: type(field) in [str, int, float] is an exact type test; a bool
\* is not an int for it.
IsScalar(field) == field.tag \in {"str", "int", "float"}

\* Variant: a truthy 'name' is preferred to the 'value'.
TakesValue_NameFirst(field) ==
    /\ field.tag = "dict"
    /\ Truthy(DictGet(field, "value"))
    /\ ~Truthy(DictGet(field, "name"))

\* line 127: type(field) is dict and field.get('value')
TakesValue(field) == field.tag = "dict" /\ Truthy(DictGet(field, "value"))

\* line 129: type(field) is dict and field.get('name'), tried after line 127
TakesName(field) == field.tag = "dict" /\ Truthy(DictGet(field, "name"))

\* line 134: the exception text starts with the offending field.
Unsupported(field) == Raised("Exception", field)

\* line 132: the list comprehension calls extract_value on the elements from
\* left to right, so the first element that raises ends it; only then are
\* the results joined.
ListBranch(results) ==
    LET failed == {k \in 1..Len(results) : ~results[k].ok}
    IN  IF failed # {}
        THEN results[Min(failed)]
        ELSE str_join(", ", [k \in 1..Len(results) |-> results[k].val])

RECURSIVE extract_value(_)
extract_value(field) ==
    IF field.tag = "None" THEN NoneBranch(field)
    ELSE IF IsScalar(field) THEN Returned(field)
    ELSE IF TakesValue(field) THEN Returned(field.value)
    ELSE IF TakesName(field) THEN Returned(field.name)
    ELSE IF field.tag = "list"
         THEN ListBranch([k \in 1..Len(field.elems) |->
                             extract_value(field.elems[k])])
    ELSE Unsupported(field)

----------------------------------------------------------------------------
(* Raw field values handed to extract_value *)

Scalars ==
    {None, PyStr(""), PyStr("a"), PyStr("b"), PyInt(0), PyInt(1), PyFloat("1.5"),
     PyBool(TRUE)}

\* dicts over the keys 'value', 'name' and 'other'
Dicts ==
    {PyDict(v, n, o) :
        v \in {Absent, None, PyStr(""), PyStr("a"), PyInt(0), PyInt(1),
               PyList(<<PyStr("a")>>)},
        n \in {Absent, PyStr(""), PyStr("b")},
        o \in {Absent, PyInt(1)}}

ListElems ==
    {PyStr("a"), PyStr("b"), PyInt(1), None, PyDict(Absent, PyStr("b"), Absent),
     PyDict(Absent, Absent, PyInt(1))}

Lists1 == {PyList(e) : e \in SeqUpTo(ListElems, MaxLen)}

NestedElems ==
    {PyStr("a"), PyDict(Absent, Absent, PyInt(1)), PyList(<<>>), PyList(<<PyStr("a")>>),
     PyList(<<PyInt(1)>>), PyList(<<PyList(<<PyDict(Absent, Absent, PyInt(1))>>)>>)}

Lists2 == {PyList(e) : e \in SeqUpTo(NestedElems, MaxLen)}

RawValues == Scalars \cup Dicts \cup Lists1 \cup Lists2

----------------------------------------------------------------------------
(* Python dicts with str keys, in insertion order: a sequence of <<key, value>>
   pairs with distinct keys *)

DictKeys(d) == {d[k][1] : k \in 1..Len(d)}

DictHas(d, key) == key \in DictKeys(d)

\* d[key] of a key the dict holds
DictAt(d, key) == d[CHOOSE k \in 1..Len(d) : d[k][1] = key][2]

\* d[key] = v: a held key keeps its place and takes the new value, a new key
\* goes to the end.
DictSet(d, key, v) ==
    IF DictHas(d, key)
    THEN [k \in 1..Len(d) |-> IF d[k][1] = key THEN <<key, v>> ELSE d[k]]
    ELSE Append(d, <<key, v>>)

----------------------------------------------------------------------------
(* pandas *)

\* pandas.isna of a cell: None and NaN are both missing values.
IsNa(cell) == cell.tag \in {"None", "NaN"}

\* The strings of the model in Python's str order (code point order), which
\* is the order the groupby sorts str keys in.
StrOrder == <<"", "Alice", "N/A", "Open", "x", "y">>

StrRank(s) == CHOOSE k \in 1..Len(StrOrder) : StrOrder[k] = s

\* The str cells of S as a sequence in ascending order.
RECURSIVE SortKeys(_)
SortKeys(S) ==
    IF S = {} THEN <<>>
    ELSE LET least == CHOOSE a \in S :
                          \A b \in S : StrRank(a.s) <= StrRank(b.s)
         IN  <<least>> \o SortKeys(S \ {least})

\* Column labels of DataFrame(list of dicts): the keys of the dicts in
\* first-seen order.
RECURSIVE FirstSeen(_, _)
FirstSeen(dicts, seen) ==
    IF dicts = <<>> THEN seen
    ELSE LET d == Head(dicts)
             fresh == SelectSeq([k \in 1..Len(d) |-> d[k][1]],
                                LAMBDA key : \A j \in 1..Len(seen) :
                                                 seen[j] # key)
         IN  FirstSeen(Tail(dicts), seen \o fresh)

\* Variant: a key the dict lacks gives an empty string.
CellOf_EmptyDefault(d, column) ==
    IF DictHas(d, column) THEN DictAt(d, column) ELSE PyStr("")

\* A cell of DataFrame(list of dicts): the dict's entry for the column, NaN
\* where the dict has no such key.
CellOf(d, column) == IF DictHas(d, column) THEN DictAt(d, column) ELSE NaN

\* DataFrame(data) of line 143, data a list of dicts: one row per dict, in the
\* list's order.
DataFrame(data) ==
    LET columns == FirstSeen(data, <<>>)
        names == {columns[k] : k \in 1..Len(columns)}
    IN  [columns |-> columns,
         data |-> [r \in 1..Len(data) |->
                      [c \in names |-> CellOf(data[r], c)]]]

ColumnSet(frame) == {frame.columns[k] : k \in 1..Len(frame.columns)}

\* df.groupby(groupby) with the default dropna=True: the group keys are the
\* distinct values of the column that are not missing; rows with a missing
\* value in the column belong to no group.
GroupKeys(frame, groupby) ==
    {cell \in {frame.data[r][groupby] : r \in 1..Len(frame.data)} :
        ~IsNa(cell)}

\* .size(): the number of rows of one group.
GroupSize(frame, groupby, key) ==
    Cardinality({r \in 1..Len(frame.data) : frame.data[r][groupby] = key})

\* line 163: df.groupby(groupby).size().reset_index(name=count_column_name).
\* A KeyError when df has no such column, a ValueError when the count column
\* would take the name of the grouped one; otherwise a DataFrame with one row
\* per group, in ascending order of the group keys (sort=True).
generate_groupby_count_dataframe(frame, groupby, count_column_name) ==
    IF groupby \notin ColumnSet(frame)
    THEN Raised("KeyError", PyStr(groupby))
    ELSE IF groupby = count_column_name
    THEN Raised("ValueError", PyStr(count_column_name))
    ELSE LET keys == SortKeys(GroupKeys(frame, groupby))
         IN  Returned(
                 [columns |-> <<groupby, count_column_name>>,
                  data |-> [k \in 1..Len(keys) |->
                      [c \in {groupby, count_column_name} |->
                          IF c = groupby
                          THEN keys[k]
                          ELSE PyInt(GroupSize(frame, groupby, keys[k]))]]])

\* The (value, count) pairs of a groupby DataFrame.
Pairs(agg) ==
    {<<agg.data[k][agg.columns[1]], agg.data[k][agg.columns[2]].n>> :
        k \in 1..Len(agg.data)}

----------------------------------------------------------------------------
(* The calls checked on their own *)

NoError == [tag |-> "no error"]
NoReturn == [tag |-> "no return"]
NoCall == [tag |-> "no call"]

\* The pipeline's variables while one function is called directly.
PipelineIdle ==
    /\ calls = <<>>
    /\ all_jira_fields = <<>>
    /\ issues = <<>>
    /\ rows = <<>>
    /\ df = NoCall
    /\ groupby_dfs = <<>>
    /\ idx = 0
    /\ error = NoError
    /\ ret = NoReturn

\* extract_value called on one raw value.
InitExtract ==
    /\ pc = "extract_call"
    /\ arg \in RawValues
    /\ res = NoCall
    /\ PipelineIdle

CallExtract ==
    /\ pc = "extract_call"
    /\ res' = extract_value(arg)
    /\ pc' = "extract_done"
    /\ UNCHANGED <<calls, all_jira_fields, issues, rows, df, groupby_dfs, idx,
                   error, ret, arg>>

NextExtract == CallExtract

SpecExtract == InitExtract /\ [][NextExtract]_vars

\* generate_groupby_count_dataframe called on a DataFrame with the one column
\* 'A'.
GroupCells == {NaN, None, PyStr(""), PyStr("x"), PyStr("y")}

GroupFrames ==
    {[columns |-> <<"A">>,
      data |-> [r \in 1..Len(cells) |-> [c \in {"A"} |-> cells[r]]]] :
        cells \in SeqUpTo(GroupCells, MaxRows)}

InitGroupBy ==
    /\ pc = "groupby_call"
    /\ arg \in [df : GroupFrames, groupby : {"A", "B"},
                count_column_name : {"Count", "A"}]
    /\ res = NoCall
    /\ PipelineIdle

CallGroupBy ==
    /\ pc = "groupby_call"
    /\ res' = generate_groupby_count_dataframe(arg.df, arg.groupby,
                                               arg.count_column_name)
    /\ pc' = "groupby_done"
    /\ UNCHANGED <<calls, all_jira_fields, issues, rows, df, groupby_dfs, idx,
                   error, ret, arg>>

NextGroupBy == CallGroupBy

SpecGroupBy == InitGroupBy /\ [][NextGroupBy]_vars

----------------------------------------------------------------------------
(* generate_dataframes_by_jql, lines 136-149 *)

\* What self.jira_api.fields() may answer: a list of field descriptions.
\* In the second the tracker does not describe 'assignee'; in the third two
\* fields carry one display name.
FieldLists ==
    {<<[id |-> "status", name |-> "Status"],
       [id |-> "assignee", name |-> "Assignee"]>>,
     <<[id |-> "status", name |-> "Status"]>>,
     <<[id |-> "status", name |-> "Status"],
       [id |-> "assignee", name |-> "Status"]>>}

FieldIds == {"status", "assignee"}

\* The raw values of the fields of a fetched issue.
IssueValues ==
    {None, PyDict(Absent, PyStr("Open"), Absent),
     PyDict(Absent, PyStr("Alice"), Absent), PyDict(Absent, Absent, PyInt(1))}

\* issue['fields']: a dict from field id to raw value.
IssueFields ==
    {d \in SeqUpTo(FieldIds \X IssueValues, Cardinality(FieldIds)) :
        \A j, k \in 1..Len(d) : j # k => d[j][1] # d[k][1]}

\* What search_issues(...)['issues'] may answer.
SearchResults ==
    {[k \in 1..Len(s) |-> [fields |-> s[k]]] :
        s \in SeqUpTo(IssueFields, MaxIssues)}

\* line 136: {i['id']: i for i in self.jira_api.fields()}; of two
\* descriptions with one id the later stays.
FieldsById(fieldList) ==
    [id \in {fieldList[k].id : k \in 1..Len(fieldList)} |->
        LET last == CHOOSE k \in 1..Len(fieldList) :
                        /\ fieldList[k].id = id
                        /\ \A j \in 1..Len(fieldList) :
                               fieldList[j].id = id => j <= k
        IN  fieldList[last]]

\* Variant: an id the catalog lacks is used as its own name.
LookupName_OrId(fieldsById, k) ==
    IF k \in DOMAIN fieldsById
    THEN Returned(fieldsById[k].name)
    ELSE Returned(k)

\* all_jira_fields[k]['name'] of line 141
LookupName(fieldsById, k) ==
    IF k \in DOMAIN fieldsById
    THEN Returned(fieldsById[k].name)
    ELSE Raised("KeyError", PyStr(k))

\* lines 140-142: the dict comprehension over issue['fields'].items(). For
\* each item the key expression is evaluated first, the value expression
\* second; the first exception ends the comprehension.
RECURSIVE DictComp(_, _, _)
DictComp(items, fieldsById, acc) ==
    IF items = <<>> THEN Returned(acc)
    ELSE LET k == Head(items)[1]
             v == Head(items)[2]
             name == LookupName(fieldsById, k)
             value == extract_value(v)
         IN  IF ~name.ok THEN name
             ELSE IF ~value.ok THEN value
             ELSE DictComp(Tail(items), fieldsById,
                           DictSet(acc, name.val, value.val))

Init ==
    /\ pc = "fields"
    /\ calls = <<>>
    /\ all_jira_fields = <<>>
    /\ issues = <<>>
    /\ rows = <<>>
    /\ df = NoCall
    /\ groupby_dfs = <<>>
    /\ idx = 0
    /\ error = NoError
    /\ ret = NoReturn
    /\ arg = NoCall
    /\ res = NoCall

\* line 136: self.jira_api.fields() answers.
FetchFields ==
    /\ pc = "fields"
    /\ calls' = Append(calls, "fields")
    /\ \E fieldList \in FieldLists :
           all_jira_fields' = FieldsById(fieldList)
    /\ pc' = "search"
    /\ UNCHANGED <<issues, rows, df, groupby_dfs, idx, error, ret, arg, res>>

\* line 136: self.jira_api.fields() raises; nothing catches it.
FetchFieldsRaises ==
    /\ pc = "fields"
    /\ calls' = Append(calls, "fields")
    /\ error' = Raised("JIRAError", PyStr("fields"))
    /\ pc' = "raised"
    /\ UNCHANGED <<all_jira_fields, issues, rows, df, groupby_dfs, idx, ret,
                   arg, res>>

\* lines 137-139: df = [], then self.jira_api.search_issues(...) answers and
\* the for loop starts on its ['issues'].
SearchIssues ==
    /\ pc = "search"
    /\ calls' = Append(calls, "search_issues")
    /\ \E result \in SearchResults : issues' = result
    /\ rows' = <<>>
    /\ idx' = 1
    /\ pc' = "tabulate"
    /\ UNCHANGED <<all_jira_fields, df, groupby_dfs, error, ret, arg, res>>

\* Variant: a failed search is issued again.
SearchIssuesRaises_Retry ==
    /\ pc = "search"
    /\ Len(calls) < 3
    /\ calls' = Append(calls, "search_issues")
    /\ UNCHANGED <<pc, all_jira_fields, issues, rows, df, groupby_dfs, idx,
                   error, ret, arg, res>>

\* lines 138-139: self.jira_api.search_issues(...) raises; nothing catches it.
SearchIssuesRaises ==
    /\ pc = "search"
    /\ calls' = Append(calls, "search_issues")
    /\ error' = Raised("JIRAError", PyStr("search_issues"))
    /\ pc' = "raised"
    /\ UNCHANGED <<all_jira_fields, issues, rows, df, groupby_dfs, idx, ret,
                   arg, res>>

\* lines 140-142: one turn of the for loop appends the issue's row.
TabulateIssue ==
    /\ pc = "tabulate"
    /\ idx <= Len(issues)
    /\ LET row == DictComp(issues[idx].fields, all_jira_fields, <<>>)
       IN  /\ row.ok
           /\ rows' = Append(rows, row.val)
    /\ idx' = idx + 1
    /\ UNCHANGED <<pc, calls, all_jira_fields, issues, df, groupby_dfs, error,
                   ret, arg, res>>

\* lines 140-142: the dict comprehension raises; nothing catches it.
TabulateIssueRaises ==
    /\ pc = "tabulate"
    /\ idx <= Len(issues)
    /\ LET row == DictComp(issues[idx].fields, all_jira_fields, <<>>)
       IN  /\ ~row.ok
           /\ error' = row
    /\ pc' = "raised"
    /\ UNCHANGED <<calls, all_jira_fields, issues, rows, df, groupby_dfs, idx,
                   ret, arg, res>>

\* lines 143-145: the loop is over; df = DataFrame(df), groupby_dfs = {}.
MakeDataFrame ==
    /\ pc = "tabulate"
    /\ idx > Len(issues)
    /\ df' = DataFrame(rows)
    /\ groupby_dfs' = <<>>
    /\ idx' = 1
    /\ pc' = "groupby"
    /\ UNCHANGED <<calls, all_jira_fields, issues, rows, error, ret, arg, res>>

\* Variant: the groupby runs on a DataFrame built without the last row.
GroupByColumn_OtherData ==
    /\ pc = "groupby"
    /\ idx <= Len(df.columns)
    /\ LET i == df.columns[idx]
           other == [df EXCEPT !.data = SubSeq(df.data, 1, Len(df.data) - 1)]
           grouped == generate_groupby_count_dataframe(other, i, "Count")
       IN  /\ grouped.ok
           /\ groupby_dfs' =
                  [c \in DOMAIN groupby_dfs \cup {i} |->
                      IF c = i THEN grouped.val ELSE groupby_dfs[c]]
    /\ idx' = idx + 1
    /\ UNCHANGED <<pc, calls, all_jira_fields, issues, rows, df, error, ret,
                   arg, res>>

\* lines 146-147: one turn of the loop over df.columns. The cells are None,
\* NaN or str and no column is named 'Count', so the call returns.
GroupByColumn ==
    /\ pc = "groupby"
    /\ idx <= Len(df.columns)
    /\ LET i == df.columns[idx]
           grouped == generate_groupby_count_dataframe(df, i, "Count")
       IN  /\ grouped.ok
           /\ groupby_dfs' =
                  [c \in DOMAIN groupby_dfs \cup {i} |->
                      IF c = i THEN grouped.val ELSE groupby_dfs[c]]
    /\ idx' = idx + 1
    /\ UNCHANGED <<pc, calls, all_jira_fields, issues, rows, df, error, ret,
                   arg, res>>

\* line 149: return (df, groupby_dfs)
Return ==
    /\ pc = "groupby"
    /\ idx > Len(df.columns)
    /\ ret' = [df |-> df, groupby_dfs |-> groupby_dfs]
    /\ pc' = "returned"
    /\ UNCHANGED <<calls, all_jira_fields, issues, rows, df, groupby_dfs, idx,
                   error, arg, res>>

Next ==
    \/ FetchFields
    \/ FetchFieldsRaises
    \/ SearchIssues
    \/ SearchIssuesRaises
    \/ TabulateIssue
    \/ TabulateIssueRaises
    \/ MakeDataFrame
    \/ GroupByColumn
    \/ Return

Spec == Init /\ [][Next]_vars

----------------------------------------------------------------------------
(* Properties of extract_value, checked under SpecExtract *)

\* The values C1 calls extractable: a str, int or float, a dict with a usable
\* 'value' or 'name', or a list of such values.
RECURSIVE Extractable(_)
Extractable(v) ==
    \/ v.tag \in {"str", "int", "float"}
    \/ v.tag = "dict" /\ (\/ Truthy(DictGet(v, "value"))
                          \/ Truthy(DictGet(v, "name")))
    \/ v.tag = "list" /\ \A k \in 1..Len(v.elems) : Extractable(v.elems[k])

\* C1: extract_value of a list of extractable values does not fail and
\* returns a str; when the elements' extracted values are strs it is these
\* joined with ", " in the list's order, and "" for the empty list.
C1_ListJoin ==
    (/\ pc = "extract_done"
     /\ arg.tag = "list"
     /\ \A k \in 1..Len(arg.elems) : Extractable(arg.elems[k]))
    => /\ res.ok
       /\ res.val.tag = "str"
       /\ LET parts == [k \in 1..Len(arg.elems) |->
                           extract_value(arg.elems[k])]
          IN  (\A k \in 1..Len(parts) :
                   parts[k].ok /\ parts[k].val.tag = "str")
              => res.val.s = JoinStr(", ", [k \in 1..Len(parts) |->
                                               parts[k].val.s])

\* C2 as stated: a dict with a 'value' key gives the value's content,
\* whatever it is and whether or not there is a 'name'; a dict with a 'name'
\* and no 'value' key gives the name's content, whatever it is.
C2_AnyValueOrName ==
    (pc = "extract_done" /\ arg.tag = "dict")
    => /\ arg.value # Absent => res = Returned(arg.value)
       /\ (arg.value = Absent /\ arg.name # Absent)
              => res = Returned(arg.name)

\* C2, amended: a dict with a truthy 'value' gives the value's content,
\* whether or not there is a 'name'; a dict with a truthy 'name' and no
\* 'value' key gives the name's content.
C2_TruthyValueOrName ==
    (pc = "extract_done" /\ arg.tag = "dict")
    => /\ (arg.value # Absent /\ Truthy(arg.value))
              => res = Returned(arg.value)
       /\ (arg.value = Absent /\ arg.name # Absent /\ Truthy(arg.name))
              => res = Returned(arg.name)

\* A dict with a truthy 'value' and a truthy 'name' was extracted to its
\* value.
C2_Witness ==
    /\ pc = "extract_done"
    /\ arg.tag = "dict"
    /\ arg.value # Absent /\ Truthy(arg.value)
    /\ arg.name # Absent /\ Truthy(arg.name)
    /\ res = Returned(arg.value)

\* The shapes C7 calls unsupported.
UnsupportedShape(v) ==
    /\ v.tag \notin {"None", "str", "int", "float", "list"}
    /\ ~(v.tag = "dict" /\ (\/ Truthy(DictGet(v, "value"))
                            \/ Truthy(DictGet(v, "name"))))

\* The unsupported values that v is or holds as a list element at any depth.
RECURSIVE UnsupportedIn(_)
UnsupportedIn(v) ==
    IF v.tag = "list"
    THEN UNION {UnsupportedIn(v.elems[k]) : k \in 1..Len(v.elems)}
    ELSE IF UnsupportedShape(v) THEN {v} ELSE {}

\* C7: extract_value of an unsupported value, or of a list holding one at any
\* depth, raises the Exception of line 134 carrying an unsupported value.
C7_UnsupportedRaises ==
    (pc = "extract_done" /\ UnsupportedIn(arg) # {})
    => /\ ~res.ok
       /\ res.exc = "Exception"
       /\ res.val \in UnsupportedIn(arg)

----------------------------------------------------------------------------
(* Properties of generate_groupby_count_dataframe, checked under SpecGroupBy *)

\* The rows of frame with a missing cell in the column.
MissingRows(frame, column) ==
    {r \in 1..Len(frame.data) : IsNa(frame.data[r][column])}

RECURSIVE SumCounts(_, _)
SumCounts(agg, k) ==
    IF k = 0 THEN 0
    ELSE agg.data[k][agg.columns[2]].n + SumCounts(agg, k - 1)

\* C3: when rows have a missing cell in the grouped column, the result has a
\* row for the missing group counting these rows, apart from the row of the
\* empty string.
C3_MissingGroup ==
    (/\ pc = "groupby_done"
     /\ res.ok
     /\ MissingRows(arg.df, arg.groupby) # {})
    => \E pair \in Pairs(res.val) :
           /\ IsNa(pair[1])
           /\ pair[2] = Cardinality(MissingRows(arg.df, arg.groupby))

\* C4: the result has exactly one row per distinct value of the column, with
\* the number of rows holding the value, and the counts add up to the number
\* of rows of the DataFrame.
C4_Aggregation ==
    (pc = "groupby_done" /\ res.ok)
    => LET frame == arg.df
           present == {frame.data[r][arg.groupby] : r \in 1..Len(frame.data)}
                          \ {None, NaN}
       IN  /\ \A v \in present :
                  <<v, GroupSize(frame, arg.groupby, v)>> \in Pairs(res.val)
           /\ Cardinality(Pairs(res.val)) = Len(res.val.data)
           /\ \A pair \in Pairs(res.val) :
                  /\ pair[1] \in present
                  /\ pair[2] = GroupSize(frame, arg.groupby, pair[1])
           /\ SumCounts(res.val, Len(res.val.data)) = Len(frame.data)

----------------------------------------------------------------------------
(* Properties of generate_dataframes_by_jql, checked under Spec *)

\* The DataFrame of line 143 exists.
Tabulated == pc \in {"groupby", "returned"}

\* The display name of the k-th field of the r-th fetched issue.
NameOf(r, k) == all_jira_fields[issues[r].fields[k][1]].name

\* The places in the r-th issue of the fields displayed as column c.
FieldsNamed(r, c) ==
    {k \in 1..Len(issues[r].fields) : NameOf(r, k) = c}

\* C5: while and after the aggregates are taken, groupby_dfs holds, for each
\* column done so far, the pairs of the groupby of that column over df; in
\* the returned tuple its keys are the columns of the returned DataFrame.
C5_PipelineConsistency ==
    /\ pc = "groupby"
       => /\ DOMAIN groupby_dfs = {df.columns[k] : k \in 1..(idx - 1)}
          /\ \A c \in DOMAIN groupby_dfs :
                 Pairs(groupby_dfs[c]) =
                     Pairs(generate_groupby_count_dataframe(df, c, "Count").val)
    /\ pc = "returned"
       => /\ DOMAIN ret.groupby_dfs = ColumnSet(ret.df)
          /\ \A c \in ColumnSet(ret.df) :
                 Pairs(ret.groupby_dfs[c]) =
                     Pairs(generate_groupby_count_dataframe(
                               ret.df, c, "Count").val)

\* A run returned a DataFrame of two columns and two rows with a group of
\* two rows.
C5_Witness ==
    /\ pc = "returned"
    /\ Len(ret.df.columns) = 2
    /\ Len(ret.df.data) = 2
    /\ \E c \in DOMAIN ret.groupby_dfs :
           \E pair \in Pairs(ret.groupby_dfs[c]) : pair[2] = 2

\* The two issues of the end-to-end scenario, fetched with both fields
\* described.
Scenario ==
    /\ Len(calls) = 2
    /\ all_jira_fields =
           FieldsById(<<[id |-> "status", name |-> "Status"],
                        [id |-> "assignee", name |-> "Assignee"]>>)
    /\ issues =
           <<[fields |-> <<<<"status", PyDict(Absent, PyStr("Open"), Absent)>>,
                           <<"assignee",
                             PyDict(Absent, PyStr("Alice"), Absent)>>>>],
             [fields |-> <<<<"status", PyDict(Absent, PyStr("Open"), Absent)>>,
                           <<"assignee", None>>>>]>>

\* What C6 expects of the scenario: the run does not fail, and the DataFrame
\* and the Status aggregate are the expected ones.
ScenarioResult ==
    Scenario
    => /\ pc # "raised"
       /\ Tabulated
          => /\ ColumnSet(df) = {"Status", "Assignee"}
             /\ Len(df.data) = 2
             /\ df.data[1]["Status"] = PyStr("Open")
             /\ df.data[1]["Assignee"] = PyStr("Alice")
             /\ df.data[2]["Status"] = PyStr("Open")
             /\ IsNa(df.data[2]["Assignee"])
       /\ pc = "returned"
          => /\ ret.df = df
             /\ Pairs(ret.groupby_dfs["Status"]) = {<<PyStr("Open"), 2>>}

\* A run that raised while tabulating did so on a field other than a null
\* one of a described field.
NullNeverRaises ==
    (pc = "raised" /\ error.exc # "JIRAError")
    => /\ error.val # None
       /\ \E k \in 1..Len(issues[idx].fields) :
              \/ issues[idx].fields[k][1] \notin DOMAIN all_jira_fields
              \/ issues[idx].fields[k][2] # None

\* C6 as stated: a null field does not fail the run, and once the DataFrame
\* is built every null field of every issue has its display name among the
\* columns and a missing cell in its row; the scenario gives the expected
\* result.
C6_NullIsMissing ==
    /\ NullNeverRaises
    /\ ScenarioResult
    /\ Tabulated
       => /\ Len(df.data) = Len(issues)
          /\ \A r \in 1..Len(issues) :
                 \A k \in 1..Len(issues[r].fields) :
                     issues[r].fields[k][2] = None
                     => /\ NameOf(r, k) \in ColumnSet(df)
                        /\ IsNa(df.data[r][NameOf(r, k)])

\* C6, amended: the cell of a null field is missing when no later field of
\* the same issue has the same display name.
C6_NullIsMissingUnlessOverwritten ==
    /\ NullNeverRaises
    /\ ScenarioResult
    /\ Tabulated
       => /\ Len(df.data) = Len(issues)
          /\ \A r \in 1..Len(issues) :
                 \A k \in 1..Len(issues[r].fields) :
                     issues[r].fields[k][2] = None
                     => /\ NameOf(r, k) \in ColumnSet(df)
                        /\ (\A j \in FieldsNamed(r, NameOf(r, k)) : j <= k)
                               => IsNa(df.data[r][NameOf(r, k)])

\* The scenario's run returned.
C6_Witness == Scenario /\ pc = "returned"

\* C8: a run that built its DataFrame met no field id the catalog lacks and
\* has a row for every fetched issue; a run that raised has built no
\* DataFrame and no aggregate and returned nothing; a run that returned did
\* not raise.
C8_UnknownFieldId ==
    /\ Tabulated
       => /\ \A r \in 1..Len(issues) :
                 \A k \in 1..Len(issues[r].fields) :
                     issues[r].fields[k][1] \in DOMAIN all_jira_fields
          /\ Len(df.data) = Len(issues)
    /\ pc = "raised" => df = NoCall /\ groupby_dfs = <<>> /\ ret = NoReturn
    /\ pc = "returned" => error = NoError /\ Len(ret.df.data) = Len(issues)
    /\ pc # "returned" => ret = NoReturn

\* The second issue of a batch named a field the catalog lacks, after the
\* first was tabulated, and the run raised the KeyError.
C8_Witness ==
    /\ pc = "raised"
    /\ error.exc = "KeyError"
    /\ idx = 2
    /\ Len(rows) = 1
    /\ ret = NoReturn

C10_CallOrder ==
    /\ pc = "fields" => calls = <<>>
    /\ pc = "search" => calls = <<"fields">>
    /\ pc \in {"tabulate", "groupby", "returned"}
       => calls = <<"fields", "search_issues">>
    /\ pc = "raised"
       => /\ calls \in {<<"fields">>, <<"fields", "search_issues">>}
          /\ error.exc = "JIRAError"
             => /\ error.val = PyStr(calls[Len(calls)])
                /\ rows = <<>>
                /\ df = NoCall
                /\ groupby_dfs = <<>>
                /\ ret = NoReturn

\* The search raised after the catalog was fetched.
C10_Witness ==
    /\ pc = "raised"
    /\ error = Raised("JIRAError", PyStr("search_issues"))
    /\ calls = <<"fields", "search_issues">>

====
